---- MODULE Spec2Model ----
(***************************************************************************)
(* The Django example application examples/django-app/myapp: the URLconf   *)
(* (urls.py), the two views (views.py) and the settings that shape a       *)
(* request's way through the framework (settings.py: ROOT_URLCONF,         *)
(* MIDDLEWARE, DEBUG), served by a host that runs several requests at once. *)
(*                                                                         *)
(* A path is the sequence of its tokens, "/" or a slash-free name:         *)
(* "/ping/" is <<"/", "ping", "/">> and the route 'ping/' is               *)
(* <<"ping", "/">>.                                                        *)
(***************************************************************************)
EXTENDS Integers, Sequences, FiniteSets, TLC

\* ------------------------------------------------------------------ bounds
NumWorkers == 2     \* requests the host serves at the same time
MaxRequests == 3    \* requests the host accepts in one run

Workers == 1..NumWorkers

\* ------------------------------------------------------------ the requests
Methods == {"GET", "POST"}

Paths ==
  { <<"/", "ping", "/">>, <<"/", "health", "/">>,
    <<"/", "unknown", "/">>, <<"/", "ping">> }

\* what a request carries besides its method and path: <<body, X-Probe header>>
Extras == { <<"", "">>, <<"{\"message\": \"ping\"}", "debug">> }

\* the requests the host may hand over: every method and path bare, and to the
\* paths of urls.py also with a body and a header
Requests ==
  { r \in { [method |-> m, path |-> p, body |-> e[1], headers |-> e[2]] :
              m \in Methods, p \in Paths, e \in Extras } :
      r.body = "" \/ r.path \in { <<"/", "ping", "/">>, <<"/", "health", "/">> } }

NoRequest == [method |-> "", path |-> <<>>, body |-> "", headers |-> ""]

\* ----------------------------------------------------------- the responses
NoResponse == [status |-> 0, content_type |-> "", body |-> ""]

\* json.dumps of a dict of strings, given as its sequence of <<key, value>>
RECURSIVE JsonItems(_)
JsonItems(d) ==
  IF d = <<>> THEN ""
  ELSE "\"" \o d[1][1] \o "\": \"" \o d[1][2] \o "\""
       \o (IF Len(d) > 1 THEN ", " ELSE "") \o JsonItems(Tail(d))

JsonDumps(d) == "{" \o JsonItems(d) \o "}"

\* django.http.JsonResponse(data): status 200, JSON content type, dumped body
JsonResponse(data) ==
  [status |-> 200, content_type |-> "application/json", body |-> JsonDumps(data)]

\* -------------------------------------------------------------- views.py
pingRenamed(request) == JsonResponse(<< <<"message", "ping">> >>)

pingEcho(request) == JsonResponse(<< <<"message", request.body>> >>)

pingGetOnly(request) ==
  IF request.method = "GET" THEN JsonResponse(<< <<"message", "pong">> >>)
  ELSE [status |-> 405, content_type |-> "text/html", body |-> ""]

ping(request) == JsonResponse(<< <<"message", "pong">> >>)

healthDown(request) == JsonResponse(<< <<"status", "down">> >>)

health(request) == JsonResponse(<< <<"status", "ok">> >>)

Views == {"ping", "health"}

\* the view function a URL pattern's callback names, applied to the request
ApplyView(view, request) ==
  CASE view = "ping" -> ping(request)
    [] view = "health" -> health(request)

\* --------------------------------------------------------------- urls.py
\* path(route, view, name=...): a pattern matching the route as a whole
path(route, view, name) == [route |-> route, view |-> view, name |-> name]

myapp_urlsDuplicate ==
  << path(<<"ping", "/">>, "ping", "ping"),
     path(<<"ping", "/">>, "health", "health") >>

myapp_urlsExtra ==
  << path(<<"ping", "/">>, "ping", "ping"),
     path(<<"health", "/">>, "health", "health"),
     path(<<"unknown", "/">>, "ping", "unknown") >>

myapp_urls ==
  << path(<<"ping", "/">>, "ping", "ping"),
     path(<<"health", "/">>, "health", "health") >>

\* ------------------------------------------------------------ settings.py
DEBUG == TRUE

\* APPEND_SLASH is not set in settings.py and keeps Django's default
APPEND_SLASH == TRUE

\* ------------------------------------------- resolution (ROOT_URLCONF)
Resolver404 == "Resolver404"

\* a path() route without converters matches a path equal to it
RouteMatch(route, p) == p = route

\* the root resolver consumes the leading "/" of path_info
StripRoot(p) == IF p # <<>> /\ Head(p) = "/" THEN Tail(p) ELSE p

\* the patterns are tried in order; the first that matches gives the callback
Resolve(patterns, p) ==
  LET hits == { i \in 1..Len(patterns) : RouteMatch(patterns[i].route, StripRoot(p)) }
  IN  IF hits = {} THEN Resolver404
      ELSE patterns[CHOOSE i \in hits : \A j \in hits : i <= j].view

is_valid_path(patterns, p) == Resolve(patterns, p) # Resolver404

\* ------------------------------------------------- framework responses
\* response_for_exception(Http404): the (DEBUG) not-found page
NotFoundResponse ==
  [status |-> 404, content_type |-> "text/html", body |-> "Page not found"]

\* response_for_exception of any other exception: the (DEBUG) error page
ServerErrorResponse ==
  [status |-> 500, content_type |-> "text/html", body |-> "RuntimeError"]

\* HttpResponsePermanentRedirect
RedirectResponse ==
  [status |-> 301, content_type |-> "text/html", body |-> ""]

\* ------------------------------------------ MIDDLEWARE: CommonMiddleware
EndsWithSlash(p) == p # <<>> /\ p[Len(p)] = "/"

should_redirect_with_slash(patterns, request) ==
  /\ APPEND_SLASH
  /\ ~EndsWithSlash(request.path)
  /\ ~is_valid_path(patterns, request.path)
  /\ is_valid_path(patterns, Append(request.path, "/"))

\* CommonMiddleware.process_response: a 404 for a path that is valid with a
\* slash appended becomes a permanent redirect; under DEBUG a request whose
\* method carries a body raises RuntimeError instead
process_response(patterns, request, response) ==
  IF response.status = 404 /\ should_redirect_with_slash(patterns, request)
  THEN IF DEBUG /\ request.method \in {"POST", "PUT", "PATCH"}
       THEN ServerErrorResponse
       ELSE RedirectResponse
  ELSE response

\* ------------------------------------------------------------- the state
VARIABLES
  phase,        \* "boot" until the URLconf module is imported, then "serving"
  urlpatterns,  \* myapp.urls.urlpatterns, the module-level list
  pc,           \* per worker: where its request stands
  req,          \* per worker: the request it serves
  callback,     \* per worker: the view its request resolved to
  resp,         \* per worker: the response so far
  accepted,     \* requests accepted so far
  calls,        \* per view: invocations so far
  first,        \* per view: the response of its first invocation
  notFound      \* 404 answers sent so far

vars == <<phase, urlpatterns, pc, req, callback, resp, accepted, calls, first, notFound>>

Init ==
  /\ phase = "boot"
  /\ urlpatterns = <<>>
  /\ pc = [w \in Workers |-> "idle"]
  /\ req = [w \in Workers |-> NoRequest]
  /\ callback = [w \in Workers |-> ""]
  /\ resp = [w \in Workers |-> NoResponse]
  /\ accepted = 0
  /\ calls = [v \in Views |-> 0]
  /\ first = [v \in Views |-> NoResponse]
  /\ notFound = 0

\* importing ROOT_URLCONF evaluates the list literal of urls.py
LoadUrlconf ==
  /\ phase = "boot"
  /\ urlpatterns' = myapp_urls
  /\ phase' = "serving"
  /\ UNCHANGED <<pc, req, callback, resp, accepted, calls, first, notFound>>

\* the host hands a request to a free worker
Accept(w, r) ==
  /\ phase = "serving"
  /\ pc[w] = "idle"
  /\ accepted < MaxRequests
  /\ accepted' = accepted + 1
  /\ req' = [req EXCEPT ![w] = r]
  /\ pc' = [pc EXCEPT ![w] = "resolve"]
  /\ UNCHANGED <<phase, urlpatterns, callback, resp, calls, first, notFound>>

\* a bug: the match is kept in one slot all workers share
ResolveRequestShared(w) ==
  /\ pc[w] = "resolve"
  /\ LET m == Resolve(urlpatterns, req[w].path)
     IN  IF m = Resolver404
         THEN /\ pc' = [pc EXCEPT ![w] = "http404"]
              /\ UNCHANGED callback
         ELSE /\ pc' = [pc EXCEPT ![w] = "view"]
              /\ callback' = [x \in Workers |-> m]
  /\ UNCHANGED <<phase, urlpatterns, req, resp, accepted, calls, first, notFound>>

\* a bug: a path that resolves to nothing is dropped from further resolution
\* together with the first route
ResolveRequestPrunes(w) ==
  /\ pc[w] = "resolve"
  /\ LET m == Resolve(urlpatterns, req[w].path)
     IN  IF m = Resolver404
         THEN /\ pc' = [pc EXCEPT ![w] = "http404"]
              /\ urlpatterns' = IF urlpatterns = <<>> THEN urlpatterns ELSE Tail(urlpatterns)
              /\ UNCHANGED callback
         ELSE /\ pc' = [pc EXCEPT ![w] = "view"]
              /\ callback' = [callback EXCEPT ![w] = m]
              /\ UNCHANGED urlpatterns
  /\ UNCHANGED <<phase, req, resp, accepted, calls, first, notFound>>

\* BaseHandler.resolve_request: the URLconf gives the callback or raises Http404
ResolveRequest(w) ==
  /\ pc[w] = "resolve"
  /\ LET m == Resolve(urlpatterns, req[w].path)
     IN  IF m = Resolver404
         THEN /\ pc' = [pc EXCEPT ![w] = "http404"]
              /\ UNCHANGED callback
         ELSE /\ pc' = [pc EXCEPT ![w] = "view"]
              /\ callback' = [callback EXCEPT ![w] = m]
  /\ UNCHANGED <<phase, urlpatterns, req, resp, accepted, calls, first, notFound>>

\* a bug: the view's answer carries the number of the call
CallViewDrifts(w) ==
  /\ pc[w] = "view"
  /\ LET v == callback[w]
         r == IF calls[v] = 0 THEN ApplyView(v, req[w])
              ELSE [ApplyView(v, req[w]) EXCEPT !.body = @ \o " "]
     IN  /\ resp' = [resp EXCEPT ![w] = r]
         /\ calls' = [calls EXCEPT ![v] = @ + 1]
         /\ first' = IF calls[v] = 0 THEN [first EXCEPT ![v] = r] ELSE first
  /\ pc' = [pc EXCEPT ![w] = "middleware"]
  /\ UNCHANGED <<phase, urlpatterns, req, callback, accepted, notFound>>

\* the callback is called with the request and returns the response
CallView(w) ==
  /\ pc[w] = "view"
  /\ LET v == callback[w]
         r == ApplyView(v, req[w])
     IN  /\ resp' = [resp EXCEPT ![w] = r]
         /\ calls' = [calls EXCEPT ![v] = @ + 1]
         /\ first' = IF calls[v] = 0 THEN [first EXCEPT ![v] = r] ELSE first
  /\ pc' = [pc EXCEPT ![w] = "middleware"]
  /\ UNCHANGED <<phase, urlpatterns, req, callback, accepted, notFound>>

\* a bug: Http404 is not caught and ends the worker
HandleHttp404Uncaught(w) ==
  /\ pc[w] = "http404"
  /\ pc' = [pc EXCEPT ![w] = "crashed"]
  /\ UNCHANGED <<phase, urlpatterns, req, callback, resp, accepted, calls, first, notFound>>

\* convert_exception_to_response: Http404 becomes the not-found response
HandleHttp404(w) ==
  /\ pc[w] = "http404"
  /\ resp' = [resp EXCEPT ![w] = NotFoundResponse]
  /\ pc' = [pc EXCEPT ![w] = "middleware"]
  /\ UNCHANGED <<phase, urlpatterns, req, callback, accepted, calls, first, notFound>>

\* the response passes back through CommonMiddleware
ProcessResponse(w) ==
  /\ pc[w] = "middleware"
  /\ resp' = [resp EXCEPT ![w] = process_response(urlpatterns, req[w], resp[w])]
  /\ pc' = [pc EXCEPT ![w] = "done"]
  /\ UNCHANGED <<phase, urlpatterns, req, callback, accepted, calls, first, notFound>>

\* the response is sent and the worker is free again
Send(w) ==
  /\ pc[w] = "done"
  /\ notFound' = IF resp[w].status = 404 THEN notFound + 1 ELSE notFound
  /\ pc' = [pc EXCEPT ![w] = "idle"]
  /\ req' = [req EXCEPT ![w] = NoRequest]
  /\ callback' = [callback EXCEPT ![w] = ""]
  /\ resp' = [resp EXCEPT ![w] = NoResponse]
  /\ UNCHANGED <<phase, urlpatterns, accepted, calls, first>>

Next ==
  \/ LoadUrlconf
  \/ \E w \in Workers, r \in Requests : Accept(w, r)
  \/ \E w \in Workers : ResolveRequest(w)
  \/ \E w \in Workers : CallView(w)
  \/ \E w \in Workers : HandleHttp404(w)
  \/ \E w \in Workers : ProcessResponse(w)
  \/ \E w \in Workers : Send(w)

Spec == Init /\ [][Next]_vars

\* ------------------------------------------------- the documented surface
PingPath == <<"/", "ping", "/">>
HealthPath == <<"/", "health", "/">>
UnknownPath == <<"/", "unknown", "/">>

PongBody == "{\"message\": \"pong\"}"
OkBody == "{\"status\": \"ok\"}"

\* the routes of the interface table, as <<method, path>>
RegisteredRoutes == { <<"GET", PingPath>>, <<"GET", HealthPath>> }
RegisteredPaths == { PingPath, HealthPath }

\* worker w holds the final response to its request
Answered(w) == pc[w] = "done"

\* every other worker is free: what was accepted besides w's request is served
OthersIdle(w) == \A x \in Workers \ {w} : pc[x] = "idle"

\* the response to a request served alone, start to end, on the URLconf as written
ServeAlone(request) ==
  LET m == Resolve(myapp_urls, request.path)
      r == IF m = Resolver404 THEN NotFoundResponse ELSE ApplyView(m, request)
  IN  process_response(myapp_urls, request, r)

\* C1: every GET /ping/ is answered 200 with the body {"message": "pong"},
\* whatever was served before it.
C1_PingAnswered ==
  \A w \in Workers :
    Answered(w) /\ req[w].method = "GET" /\ req[w].path = PingPath
      => resp[w].status = 200 /\ resp[w].body = PongBody

C1_Witness ==
  \E w \in Workers :
    /\ Answered(w) /\ req[w].method = "GET" /\ req[w].path = PingPath
    /\ resp[w].status = 200
    /\ accepted >= 2 /\ OthersIdle(w)

\* C2: every GET /health/ is answered 200 with the body {"status": "ok"},
\* whatever was served before it.
C2_HealthAnswered ==
  \A w \in Workers :
    Answered(w) /\ req[w].method = "GET" /\ req[w].path = HealthPath
      => resp[w].status = 200 /\ resp[w].body = OkBody

C2_Witness ==
  \E w \in Workers :
    /\ Answered(w) /\ req[w].method = "GET" /\ req[w].path = HealthPath
    /\ resp[w].status = 200
    /\ accepted >= 2 /\ OthersIdle(w)

\* C3 as stated: every request whose (method, path) is not a registered route
\* is answered 404, POST /ping/ included.
C3_UnregisteredRoute404 ==
  \A w \in Workers :
    Answered(w) /\ <<req[w].method, req[w].path>> \notin RegisteredRoutes
      => resp[w].status = 404

\* a registered path with its trailing slash left off
SlashMissing(p) == Append(p, "/") \in RegisteredPaths

\* C3 as amended: resolution is an exact match on the path alone. A request
\* whose path is neither /ping/ nor /health/ (nor one of them with the trailing
\* slash missing) is answered 404 for every method, and a request to /ping/ or
\* /health/ is never answered 404, whatever its method.
C3_UnregisteredPath404 ==
  \A w \in Workers :
    Answered(w) =>
      /\ (req[w].path \notin RegisteredPaths /\ ~SlashMissing(req[w].path)
            => resp[w].status = 404)
      /\ (req[w].path \in RegisteredPaths => resp[w].status # 404)

C3_Witness ==
  /\ \E w \in Workers :
       Answered(w) /\ req[w].method = "GET" /\ req[w].path = UnknownPath
         /\ resp[w].status = 404
  /\ \E w \in Workers :
       Answered(w) /\ req[w].method = "POST" /\ req[w].path = PingPath
         /\ resp[w].status = 200

C5_OutputsRepeat ==
  \A w \in Workers :
    pc[w] \in {"middleware", "done"} /\ callback[w] \in Views
      => resp[w] = first[callback[w]]

C5_Witness ==
  \E w \in Workers :
    /\ pc[w] = "middleware" /\ callback[w] = "ping"
    /\ calls["ping"] >= 2 /\ notFound >= 1

\* C6: two requests to the same registered route that differ only in body or
\* headers receive the same status and body.
C6_BodyAndHeadersIgnored ==
  \A w1, w2 \in Workers :
    /\ Answered(w1) /\ Answered(w2)
    /\ req[w1].method = req[w2].method /\ req[w1].path = req[w2].path
    /\ req[w1].path \in RegisteredPaths
    => resp[w1].status = resp[w2].status /\ resp[w1].body = resp[w2].body

C6_Witness ==
  \E w1, w2 \in Workers :
    /\ Answered(w1) /\ Answered(w2)
    /\ req[w1].method = req[w2].method /\ req[w1].path = req[w2].path
    /\ req[w1].path = PingPath
    /\ req[w1].body # req[w2].body /\ req[w1].headers # req[w2].headers
    /\ resp[w1].status = 200

\* C7: once the URLconf is loaded no step changes the route table, whether
\* the request it serves reaches a view or ends in 404.
C7_RouteTableFrozen == [][phase = "serving" => urlpatterns' = urlpatterns]_vars

C7_Witness ==
  /\ phase = "serving" /\ urlpatterns = myapp_urls
  /\ notFound >= 1 /\ calls["ping"] >= 1

\* C8: under every interleaving each request receives the response it would
\* receive if it were served alone.
C8_AsIfAlone ==
  \A w \in Workers : Answered(w) => resp[w] = ServeAlone(req[w])

C8_Witness ==
  \E w1, w2 \in Workers :
    /\ w1 # w2
    /\ Answered(w1) /\ pc[w2] \in {"view", "http404", "middleware"}
    /\ req[w1].path = PingPath /\ req[w2].path # PingPath

\* C9: a 404 is not fatal: no worker ends on an unmatched request, every
\* worker that finished is free to accept again, and after 404s a GET to
\* /ping/ or /health/ is still answered 200 with its fixed body.
C9_NotFoundNotFatal ==
  /\ phase \in {"boot", "serving"}
  /\ \A w \in Workers :
       pc[w] \in {"idle", "resolve", "view", "http404", "middleware", "done"}
  /\ \A w \in Workers :
       notFound >= 1 /\ Answered(w) /\ req[w].method = "GET" =>
         /\ (req[w].path = PingPath => resp[w].status = 200 /\ resp[w].body = PongBody)
         /\ (req[w].path = HealthPath => resp[w].status = 200 /\ resp[w].body = OkBody)

C9_Witness ==
  /\ notFound >= 2
  /\ \E w \in Workers :
       Answered(w) /\ req[w].method = "GET" /\ req[w].path = PingPath
         /\ resp[w].status = 200

\* C10: a request to /ping/ or /health/ reaches its view and gets the view's
\* fixed 200 JSON response for every HTTP method, not only GET.
C10_EveryMethodReachesView ==
  \A w \in Workers :
    Answered(w) /\ req[w].path \in RegisteredPaths =>
      /\ callback[w] = (IF req[w].path = PingPath THEN "ping" ELSE "health")
      /\ resp[w].status = 200
      /\ resp[w].content_type = "application/json"
      /\ resp[w].body = (IF req[w].path = PingPath THEN PongBody ELSE OkBody)

C10_Witness ==
  \E w \in Workers :
    /\ Answered(w) /\ req[w].method = "POST" /\ req[w].path = HealthPath
    /\ callback[w] = "health" /\ resp[w].status = 200 /\ resp[w].body = OkBody

====
